---- MODULE Spec2Model ----
(***************************************************************************)
(* Model of BmcApplication (src/src/app/bmc_application.rs): the power     *)
(* state controller, the power-toggle action, start-up and the flashing    *)
(* pipeline, as tasks that interleave at their await points.              *)
(***************************************************************************)
EXTENDS Integers, Sequences, FiniteSets, TLC

\* ------------------------------------------------------------------ bounds
LogicBits == 4      \* power_logic is explored on all LogicBits-bit inputs
MaxCalls == 2       \* top-level operations started in one behaviour

\* --------------------------------------------------------- program values
ALL_NODES == 15     \* 0b1111
U8_MAX == 255       \* width of the u8 masks

Tasks == {"t1", "t2"}
Nodes == 0 .. 3             \* NodeId::Node1 .. NodeId::Node4
CallNodes == {0, 1}         \* the nodes the explored calls name
Free == "free"
Absent == -1

\* ---------------------------------------------------------- u8 arithmetic
RECURSIVE BitAnd(_, _)
BitAnd(x, y) ==
    IF x = 0 \/ y = 0 THEN 0
    ELSE (x % 2) * (y % 2) + 2 * BitAnd(x \div 2, y \div 2)

BitOr(x, y) == x + y - BitAnd(x, y)

BitNot(x) == U8_MAX - x

Bit(x, i) == (x \div (2 ^ i)) % 2

to_bitfield(node) == 2 ^ node

Some(x) == <<x>>
None == <<>>
unwrap_or(o, default) == IF o = None THEN default ELSE o[1]

\* ------------------------------------------------------------ power_logic
power_logic_keeps_deactivated(node_values, node_mask, activated_nodes, current_state) ==
    LET mask == BitAnd(node_mask, activated_nodes)
    IN  IF mask # 0
        THEN BitOr(BitAnd(current_state, BitNot(mask)), BitAnd(node_values, mask))
        ELSE current_state

power_logic_drops_unmasked(node_values, node_mask, activated_nodes, current_state) ==
    LET masked == BitAnd(current_state, activated_nodes)
        mask == BitAnd(node_mask, activated_nodes)
    IN  IF mask # 0 THEN BitAnd(node_values, mask) ELSE masked

power_logic(node_values, node_mask, activated_nodes, current_state) ==
    LET masked == BitAnd(current_state, activated_nodes)
        mask == BitAnd(node_mask, activated_nodes)
    IN  IF mask # 0
        THEN BitOr(BitAnd(masked, BitNot(mask)), BitAnd(node_values, mask))
        ELSE masked

need_atx_change_on_rise(current_node_state, next_node_state) ==
    IF next_node_state > current_node_state THEN Some(TRUE)
    ELSE IF current_node_state > 0 /\ next_node_state = 0 THEN Some(FALSE)
    ELSE None

need_atx_change(current_node_state, next_node_state) ==
    IF current_node_state = 0 /\ next_node_state > 0 THEN Some(TRUE)
    ELSE IF current_node_state > 0 /\ next_node_state = 0 THEN Some(FALSE)
    ELSE None

\* ------------------------------------------------------------------ state
VARIABLES
    logic,          \* inputs and result of a stand-alone power_logic call
    serial,         \* callers start an operation only when none is running
    gs,             \* the event listener: button, stored sender, one race per task
    power_state,    \* BmcApplication.power_state (the value inside the Mutex)
    lock,           \* holder of the power_state Mutex, or Free
    app_db,         \* ApplicationPersistency: key -> Some(value), None if unset
    hw,             \* what the pin controller and the led file were last set to
    ready,          \* BmcApplication::new returned the instance
    pc, op, ret, res,   \* per task: position, operation, continuation, result
    as,             \* per task: the activate_slot call in progress or last made
    tg,             \* per task: locals of toggle_power_states
    pn,             \* per task: the power_node call in progress or last made
    lastpn,         \* the power_node call completed last, cleared by a store write
    calls,          \* top-level operations started so far
    chan,           \* progress channel: the events sent and not yet received
    rx,             \* the receiving end of the progress channel: "open" or "closed"
    sent,           \* every progress event the channel accepted, in order
    fl              \* the flash_node run: target node, step in progress, devices found

flvars == <<chan, rx, sent, fl>>
sysvars == <<power_state, lock, app_db, hw, ready, pc, op, ret, res, as, tg, pn,
             lastpn, calls, flvars>>
aux == <<logic, serial, gs>>
vars == <<aux, sysvars>>

NoLogic == [v |-> 0, m |-> 0, a |-> 0, s |-> 0, r |-> Absent]
NoOp == [name |-> "none", node |-> 0, flag |-> FALSE]
NoCall == [v |-> 0, m |-> 0, res |-> "none"]
NoPn == [v |-> 0, m |-> 0, act |-> 0, cur |-> 0, new |-> 0, atxw |-> None,
         early |-> FALSE, fail |-> "none", res |-> "none", prev |-> "none"]
NoAs == [node |-> 0, on |-> FALSE, pre_act |-> 0, pre_pow |-> 0, res |-> "none"]
NoTg == [reset_activation |-> FALSE, node_values |-> 0, pre_act |-> 0]
NoGs == [button |-> "up", sender |-> None,
         rcv |-> [t \in Tasks |-> "none"],
         released |-> [t \in Tasks |-> FALSE],
         outcome |-> [t \in Tasks |-> "none"],
         presses |-> 0, toggles |-> 0]
NoFl == [node |-> 0, step |-> "none", mode |-> "Host", matches |-> Absent,
         applied |-> None]

\* the outputs before the first write of this process
HwAtStart == [atx |-> FALSE, led |-> FALSE, nodes |-> 0, usb_sel |-> None,
              usb_route |-> None, usb_mode |-> None, usb_boot |-> None,
              msd |-> FALSE]

InitActivated == {None, Some(0), Some(6), Some(15)}
InitUsbDb == {[usb_node |-> None, usb_route |-> None, usb_mode |-> None],
              [usb_node |-> Some(2), usb_route |-> Some("BMC"), usb_mode |-> Some(11)]}

InitWith(a, u) ==
    /\ power_state = 0
    /\ lock = Free
    /\ app_db = [activated_nodes |-> a, usb_node |-> u.usb_node,
                 usb_route |-> u.usb_route, usb_mode |-> u.usb_mode]
    /\ hw = HwAtStart
    /\ ready = FALSE
    /\ pc = [t \in Tasks |-> IF t = "t1" THEN "init_usb" ELSE "idle"]
    /\ op = [t \in Tasks |-> IF t = "t1" THEN [NoOp EXCEPT !.name = "initialize"]
                             ELSE NoOp]
    /\ ret = [t \in Tasks |-> "done"]
    /\ res = [t \in Tasks |-> IF t = "t1" THEN "run" ELSE "none"]
    /\ as = [t \in Tasks |-> NoAs]
    /\ tg = [t \in Tasks |-> NoTg]
    /\ pn = [t \in Tasks |-> NoPn]
    /\ lastpn = NoCall
    /\ calls = 0
    /\ chan = <<>>
    /\ rx = "open"
    /\ sent = <<>>
    /\ fl = NoFl

Init ==
    /\ logic = NoLogic
    /\ serial = FALSE
    /\ gs = NoGs
    /\ \E a \in InitActivated, u \in InitUsbDb : InitWith(a, u)

InitSeq ==
    /\ logic = NoLogic
    /\ serial = TRUE
    /\ gs = NoGs
    /\ \E a \in InitActivated, u \in InitUsbDb : InitWith(a, u)

\* ------------------------------------------------------------ the store
\* get fails on a key that was never set (NotFound)
GetOutcomes(key) == IF app_db[key] = None THEN {FALSE} ELSE {TRUE}

\* ------------------------------------------------- call and return glue
\* every caller hands an Err on with `?` or as its own result; Ok resumes
\* the caller at its continuation
Return(t, r) ==
    /\ pc' = [pc EXCEPT ![t] = IF r = "ok" THEN ret[t] ELSE "done"]
    /\ res' = [res EXCEPT ![t] = IF r = "err" THEN "err"
                                 ELSE IF ret[t] = "done" THEN "ok" ELSE @]
    /\ as' = [as EXCEPT ![t].res = IF @ = "run" THEN r ELSE @]

\* whether this call repeats the arguments of the call completed just before
Repeats(nodes, mask) ==
    IF lastpn.res # "none" /\ lastpn.v = nodes /\ lastpn.m = mask
    THEN lastpn.res ELSE "none"

CallPowerNode(t, nodes, mask) ==
    /\ pn' = [pn EXCEPT ![t] = [NoPn EXCEPT !.v = nodes, !.m = mask,
                                            !.res = "run",
                                            !.prev = Repeats(nodes, mask)]]
    /\ pc' = [pc EXCEPT ![t] = "pn_get"]

Begin(t, name, node, flag) ==
    /\ ready
    /\ pc[t] = "idle"
    /\ serial => \A u \in Tasks : pc[u] = "idle"
    /\ calls < MaxCalls
    /\ calls' = calls + 1
    /\ op' = [op EXCEPT ![t] = [name |-> name, node |-> node, flag |-> flag]]
    /\ res' = [res EXCEPT ![t] = "run"]
    /\ ret' = [ret EXCEPT ![t] = "done"]

\* ------------------------------------------------------------ power_node
PnGet(t) ==
    /\ pc[t] = "pn_get"
    /\ \E ok \in GetOutcomes("activated_nodes") :
          IF ok
          THEN /\ pn' = [pn EXCEPT ![t].act = app_db.activated_nodes[1]]
               /\ pc' = [pc EXCEPT ![t] = "pn_lock"]
               /\ UNCHANGED <<res, as, lastpn>>
          ELSE /\ pn' = [pn EXCEPT ![t].fail = "db", ![t].res = "err"]
               /\ lastpn' = [v |-> pn[t].v, m |-> pn[t].m, res |-> "err"]
               /\ Return(t, "err")
    /\ UNCHANGED <<flvars, aux, power_state, lock, app_db, hw, ready, op, ret, tg, calls>>

AlreadyActive_never(new_power_state, current_power_state) == FALSE

AlreadyActive(new_power_state, current_power_state) ==
    new_power_state = current_power_state

PnLock(t) ==
    /\ pc[t] = "pn_lock"
    /\ lock = Free
    /\ LET cur == power_state
           new == power_logic(pn[t].v, pn[t].m, pn[t].act, cur)
       IN  IF AlreadyActive(new, cur)
           THEN /\ pn' = [pn EXCEPT ![t].cur = cur, ![t].new = new,
                                     ![t].early = TRUE, ![t].res = "ok"]
                /\ lastpn' = [v |-> pn[t].v, m |-> pn[t].m, res |-> "ok"]
                /\ Return(t, "ok")
                /\ UNCHANGED lock
           ELSE /\ pn' = [pn EXCEPT ![t].cur = cur, ![t].new = new]
                /\ lock' = t
                /\ pc' = [pc EXCEPT ![t] =
                            IF need_atx_change(cur, new) # None
                            THEN "pn_atx" ELSE "pn_pins"]
                /\ UNCHANGED <<res, as, lastpn>>
    /\ UNCHANGED <<flvars, aux, power_state, app_db, hw, ready, op, ret, tg, calls>>

PnFail(t, what) ==
    /\ pn' = [pn EXCEPT ![t].fail = what, ![t].res = "err"]
    /\ lastpn' = [v |-> pn[t].v, m |-> pn[t].m, res |-> "err"]
    /\ lock' = Free
    /\ Return(t, "err")

PnAtx(t) ==
    /\ pc[t] = "pn_atx"
    /\ LET on == need_atx_change(pn[t].cur, pn[t].new)[1]
       IN  \E ok \in BOOLEAN :
              IF ok
              THEN /\ hw' = [hw EXCEPT !.atx = on]
                   /\ pn' = [pn EXCEPT ![t].atxw = Some(on)]
                   /\ pc' = [pc EXCEPT ![t] = "pn_led"]
                   /\ UNCHANGED <<res, as, lastpn, lock>>
              ELSE /\ PnFail(t, "atx")
                   /\ UNCHANGED hw
    /\ UNCHANGED <<flvars, aux, power_state, app_db, ready, op, ret, tg, calls>>

PnLed(t) ==
    /\ pc[t] = "pn_led"
    /\ \E ok \in BOOLEAN :
          IF ok
          THEN /\ hw' = [hw EXCEPT !.led = pn[t].atxw[1]]
               /\ UNCHANGED pn
               /\ pc' = [pc EXCEPT ![t] = "pn_pins"]
               /\ UNCHANGED <<res, as, lastpn, lock>>
          ELSE /\ PnFail(t, "led")
               /\ UNCHANGED hw
    /\ UNCHANGED <<flvars, aux, power_state, app_db, ready, op, ret, tg, calls>>

StateAfterPins_early(current_power_state, new_power_state, ok) == new_power_state

StateAfterPins(current_power_state, new_power_state, ok) ==
    IF ok THEN new_power_state ELSE current_power_state

PnPins(t) ==
    /\ pc[t] = "pn_pins"
    /\ \E ok \in BOOLEAN :
          /\ power_state' = StateAfterPins(power_state, pn[t].new, ok)
          /\ IF ok
             THEN /\ hw' = [hw EXCEPT !.nodes = pn[t].new]
                  /\ pn' = [pn EXCEPT ![t].res = "ok"]
                  /\ lastpn' = [v |-> pn[t].v, m |-> pn[t].m, res |-> "ok"]
                  /\ lock' = Free
                  /\ Return(t, "ok")
             ELSE /\ PnFail(t, "pins")
                  /\ UNCHANGED hw
    /\ UNCHANGED <<flvars, aux, app_db, ready, op, ret, tg, calls>>

\* --------------------------------------------------- power_on, power_off
power_on(t) ==
    /\ Begin(t, "power_on", 0, FALSE)
    /\ CallPowerNode(t, ALL_NODES, ALL_NODES)
    /\ UNCHANGED <<flvars, aux, power_state, lock, app_db, hw, ready, as, tg, lastpn>>

power_off(t) ==
    /\ Begin(t, "power_off", 0, FALSE)
    /\ CallPowerNode(t, 0, ALL_NODES)
    /\ UNCHANGED <<flvars, aux, power_state, lock, app_db, hw, ready, as, tg, lastpn>>

\* --------------------------------------------------------- get_node_power
get_node_power(t) ==
    /\ \E node \in CallNodes : Begin(t, "get_node_power", node, FALSE)
    /\ pc' = [pc EXCEPT ![t] = "gp_lock"]
    /\ UNCHANGED <<flvars, aux, power_state, lock, app_db, hw, ready, as, tg, pn, lastpn>>

GpLock(t) ==
    /\ pc[t] = "gp_lock"
    /\ lock = Free
    /\ op' = [op EXCEPT ![t].flag = BitAnd(power_state, to_bitfield(op[t].node)) # 0]
    /\ pc' = [pc EXCEPT ![t] = "done"]
    /\ res' = [res EXCEPT ![t] = "ok"]
    /\ UNCHANGED <<flvars, aux, power_state, lock, app_db, hw, ready, ret, as, tg, pn,
                   lastpn, calls>>

\* ---------------------------------------------------------- activate_slot
ActivatedUpdate_unmasked(state, node, on) ==
    LET mask == to_bitfield(node)
        bits == IF on THEN to_bitfield(node) ELSE BitNot(to_bitfield(node))
    IN  BitOr(BitAnd(state, BitNot(mask)), bits)

ActivatedUpdate(state, node, on) ==
    LET mask == to_bitfield(node)
        bits == IF on THEN to_bitfield(node) ELSE BitNot(to_bitfield(node))
    IN  BitOr(BitAnd(state, BitNot(mask)), BitAnd(bits, mask))

CallActivateSlot(t, node, on) ==
    /\ as' = [as EXCEPT ![t] = [node |-> node, on |-> on, pre_act |-> 0,
                                pre_pow |-> power_state, res |-> "run"]]
    /\ pc' = [pc EXCEPT ![t] = "as_get"]

activate_slot(t) ==
    /\ \E node \in CallNodes, on \in BOOLEAN :
          /\ Begin(t, "activate_slot", node, on)
          /\ CallActivateSlot(t, node, on)
    /\ UNCHANGED <<flvars, aux, power_state, lock, app_db, hw, ready, tg, pn, lastpn>>

AsGet(t) ==
    /\ pc[t] = "as_get"
    /\ \E ok \in GetOutcomes("activated_nodes") :
          IF ok
          THEN /\ as' = [as EXCEPT ![t].pre_act = app_db.activated_nodes[1]]
               /\ pc' = [pc EXCEPT ![t] = "as_set"]
               /\ UNCHANGED res
          ELSE Return(t, "err")
    /\ UNCHANGED <<flvars, aux, power_state, lock, app_db, hw, ready, op, ret, tg, pn,
                   lastpn, calls>>

AsSet(t) ==
    /\ pc[t] = "as_set"
    /\ LET node == as[t].node
           on == as[t].on
           mask == to_bitfield(node)
           bits == IF on THEN to_bitfield(node) ELSE BitNot(to_bitfield(node))
           state == ActivatedUpdate(as[t].pre_act, node, on)
       IN  \E ok \in BOOLEAN :
              IF ok
              THEN /\ app_db' = [app_db EXCEPT !.activated_nodes = Some(state)]
                   /\ lastpn' = NoCall
                   /\ pn' = [pn EXCEPT ![t] = [NoPn EXCEPT !.v = bits, !.m = mask,
                                                  !.res = "run"]]
                   /\ pc' = [pc EXCEPT ![t] = "pn_get"]
                   /\ UNCHANGED <<res, as>>
              ELSE /\ Return(t, "err")
                   /\ UNCHANGED <<app_db, lastpn, pn>>
    /\ UNCHANGED <<flvars, aux, power_state, lock, hw, ready, op, ret, tg, calls>>

\* ---------------------------------------------------- toggle_power_states
LockAfterToggleRead_kept(t) == t

LockAfterToggleRead(t) == Free

\* lines 100-104: a zero power_state forces the reset of the activation
ResetActivation_flag_only(reset_activation, state) == reset_activation

ResetActivation(reset_activation, state) == reset_activation \/ state = 0

toggle_power_states(t) ==
    /\ \E reset_activation \in BOOLEAN :
          Begin(t, "toggle_power_states", 0, reset_activation)
    /\ pc' = [pc EXCEPT ![t] = "tg_lock"]
    /\ UNCHANGED <<flvars, aux, power_state, lock, app_db, hw, ready, as, tg, pn, lastpn>>

TgLock(t) ==
    /\ pc[t] = "tg_lock"
    /\ lock = Free
    /\ lock' = LockAfterToggleRead(t)
    /\ LET reset_activation == ResetActivation(op[t].flag, power_state)
       IN  /\ tg' = [tg EXCEPT ![t] = [reset_activation |-> reset_activation,
                                       node_values |-> power_state,
                                       pre_act |-> unwrap_or(app_db.activated_nodes, 0)]]
           /\ IF reset_activation
              THEN /\ pc' = [pc EXCEPT ![t] = "tg_set"]
                   /\ UNCHANGED pn
              ELSE CallPowerNode(t, BitNot(power_state), ALL_NODES)
    /\ UNCHANGED <<flvars, aux, power_state, app_db, hw, ready, op, ret, res, as, lastpn,
                   calls>>

TgSet(t) ==
    /\ pc[t] = "tg_set"
    /\ LET value == IF tg[t].node_values < 15 THEN ALL_NODES ELSE 0
       IN  \E ok \in BOOLEAN :
              IF ok
              THEN /\ app_db' = [app_db EXCEPT !.activated_nodes = Some(value)]
                   /\ lastpn' = NoCall
                   /\ pn' = [pn EXCEPT ![t] =
                               [NoPn EXCEPT !.v = BitNot(tg[t].node_values),
                                            !.m = ALL_NODES, !.res = "run"]]
                   /\ pc' = [pc EXCEPT ![t] = "pn_get"]
                   /\ UNCHANGED <<res, as>>
              ELSE /\ Return(t, "err")
                   /\ UNCHANGED <<app_db, lastpn, pn>>
    /\ UNCHANGED <<flvars, aux, power_state, lock, hw, ready, op, ret, tg, calls>>

\* ------------------------------------------------------------- initialize
USB_NODE_DEFAULT == 0       \* NodeId::Node1
USB_MODE_DEFAULT == 15      \* 0b1111

InitializeUsbMode(t) ==
    /\ pc[t] = "init_usb"
    /\ LET node == unwrap_or(app_db.usb_node, USB_NODE_DEFAULT)
           route == unwrap_or(app_db.usb_route, "UsbA")
           mode == unwrap_or(app_db.usb_mode, USB_MODE_DEFAULT)
       IN  \E ok1 \in BOOLEAN, ok2 \in BOOLEAN, ok3 \in BOOLEAN :
              /\ hw' = [hw EXCEPT !.usb_sel = IF ok1 THEN Some(node) ELSE @,
                                  !.usb_route = IF ok2 THEN Some(route) ELSE @,
                                  !.usb_mode = IF ok3 THEN Some(mode) ELSE @]
              /\ IF ok1 /\ ok2 /\ ok3
                 THEN /\ pc' = [pc EXCEPT ![t] = "init_power"]
                      /\ UNCHANGED <<res, as>>
                 ELSE Return(t, "err")
    /\ UNCHANGED <<flvars, aux, power_state, lock, app_db, ready, op, ret, tg, pn, lastpn,
                   calls>>

\* line 126: the persisted mask is the request, for all four nodes
InitPowerRequest_inverted(enabled_nodes) == BitNot(enabled_nodes)

InitPowerRequest(enabled_nodes) == enabled_nodes

InitializePower(t) ==
    /\ pc[t] = "init_power"
    /\ \E ok \in GetOutcomes("activated_nodes") :
          IF ok
          THEN /\ CallPowerNode(t, InitPowerRequest(app_db.activated_nodes[1]), ALL_NODES)
          ELSE /\ pc' = [pc EXCEPT ![t] = "init_set"]
               /\ UNCHANGED pn
    /\ UNCHANGED <<flvars, aux, power_state, lock, app_db, hw, ready, op, ret, res, as, tg,
                   lastpn, calls>>

InitializePowerDefault(t) ==
    /\ pc[t] = "init_set"
    /\ \E ok \in BOOLEAN :
          IF ok
          THEN /\ app_db' = [app_db EXCEPT !.activated_nodes = Some(0)]
               /\ lastpn' = NoCall
               /\ Return(t, "ok")
          ELSE /\ Return(t, "err")
               /\ UNCHANGED <<app_db, lastpn>>
    /\ UNCHANGED <<flvars, aux, power_state, lock, hw, ready, op, ret, tg, pn, calls>>

\* ------------------------------------------------------ progress channel
ChanCap == 1        \* capacity of the bounded progress channel

\* progress_sender.send(..).await: Err once the receiver is gone, otherwise
\* waits for room and enqueues
SendOk(msg) ==
    /\ rx = "open"
    /\ Len(chan) < ChanCap
    /\ chan' = Append(chan, msg)
    /\ sent' = Append(sent, msg)

SendErr(t) ==
    /\ rx = "closed"
    /\ fl' = [fl EXCEPT !.step = "send"]
    /\ Return(t, "err")
    /\ UNCHANGED <<chan, sent>>

\* progress_sender.try_send(..): fails at once when full or closed
TrySendFits == rx = "open" /\ Len(chan) < ChanCap

Recv ==
    /\ \E t \in Tasks : op[t].name = "flash_node"
    /\ rx = "open"
    /\ chan # <<>>
    /\ chan' = Tail(chan)
    /\ UNCHANGED <<aux, power_state, lock, app_db, hw, ready, pc, op, ret, res, as,
                   tg, pn, lastpn, calls, rx, sent, fl>>

RxClose ==
    /\ \E t \in Tasks : op[t].name = "flash_node" /\ pc[t] # "done"
    /\ rx = "open"
    /\ rx' = "closed"
    /\ chan' = <<>>
    /\ UNCHANGED <<aux, power_state, lock, app_db, hw, ready, pc, op, ret, res, as,
                   tg, pn, lastpn, calls, sent, fl>>

\* ----------------------------------------------------------- set_usb_mode
\* PinController::set_usb_mode: the node's bit is set for Host, clear for Device
UsbModeMask(prev_mode, node, mode) ==
    IF mode = "Host" THEN BitOr(prev_mode, to_bitfield(node))
    ELSE BitAnd(prev_mode, BitNot(to_bitfield(node)))

CallSetUsbMode(t, mode, cont) ==
    /\ fl' = [fl EXCEPT !.mode = mode]
    /\ ret' = [ret EXCEPT ![t] = cont]
    /\ pc' = [pc EXCEPT ![t] = "sm_apply"]

SmApply(t) ==
    /\ pc[t] = "sm_apply"
    /\ LET prev_mode == unwrap_or(app_db.usb_mode, USB_MODE_DEFAULT)
           new_mode == UsbModeMask(prev_mode, fl.node, fl.mode)
       IN  \E ok \in BOOLEAN :
              IF ok
              THEN /\ hw' = [hw EXCEPT !.usb_mode = Some(new_mode)]
                   /\ pc' = [pc EXCEPT ![t] = "sm_persist"]
                   /\ UNCHANGED <<res, as>>
              ELSE /\ Return(t, "err")
                   /\ UNCHANGED hw
    /\ UNCHANGED <<aux, power_state, lock, app_db, ready, op, ret, tg, pn, lastpn,
                   calls, flvars>>

SmPersist(t) ==
    /\ pc[t] = "sm_persist"
    /\ \E ok \in BOOLEAN :
          IF ok
          THEN /\ app_db' = [app_db EXCEPT !.usb_mode = hw.usb_mode]
               /\ Return(t, "ok")
          ELSE /\ Return(t, "err")
               /\ UNCHANGED app_db
    /\ UNCHANGED <<aux, power_state, lock, hw, ready, op, ret, tg, pn, lastpn,
                   calls, flvars>>

\* ---------------------------------------------- flash_node, set_node_in_msd
CallSlot(t, on, cont) ==
    /\ CallActivateSlot(t, fl.node, on)
    /\ ret' = [ret EXCEPT ![t] = cont]

\* a send at position `at`, then the pipeline moves on to `next`
SendStep(t, at, msg, next) ==
    /\ pc[t] = at
    /\ \/ /\ SendOk(msg)
          /\ pc' = [pc EXCEPT ![t] = next]
          /\ UNCHANGED <<res, as, fl>>
       \/ SendErr(t)
    /\ UNCHANGED <<aux, power_state, lock, app_db, hw, ready, op, ret, tg, pn,
                   lastpn, calls, rx>>

\* an external step at position `at` that either fails or leads to `next`
HelperStep(t, at, step, next) ==
    /\ pc[t] = at
    /\ fl' = [fl EXCEPT !.step = step]
    /\ \E ok \in BOOLEAN :
          IF ok
          THEN /\ pc' = [pc EXCEPT ![t] = next]
               /\ UNCHANGED <<res, as>>
          ELSE Return(t, "err")
    /\ UNCHANGED <<aux, power_state, lock, app_db, hw, ready, op, ret, tg, pn,
                   lastpn, calls, chan, rx, sent>>

flash_node(t) ==
    /\ \A u \in Tasks : pc[u] = "idle"
    /\ \E node \in CallNodes : Begin(t, "flash_node", node, FALSE)
                               /\ fl' = [NoFl EXCEPT !.node = node, !.step = "start"]
    /\ pc' = [pc EXCEPT ![t] = "fl_send_off"]
    /\ chan' = <<>>
    /\ rx' = "open"
    /\ sent' = <<>>
    /\ UNCHANGED <<aux, power_state, lock, app_db, hw, ready, as, tg, pn, lastpn>>

FlSendOff(t) ==
    /\ pc[t] = "fl_send_off"
    /\ \/ /\ SendOk("PoweringOff")
          /\ fl' = [fl EXCEPT !.step = "deactivate"]
          /\ CallSlot(t, FALSE, "fl_clear_boot")
          /\ UNCHANGED res
       \/ /\ SendErr(t)
          /\ UNCHANGED ret
    /\ UNCHANGED <<aux, power_state, lock, app_db, hw, ready, op, tg, pn, lastpn,
                   calls, rx>>

FlClearBoot(t) ==
    /\ pc[t] = "fl_clear_boot"
    /\ fl' = [fl EXCEPT !.step = "pins"]
    /\ \E ok \in BOOLEAN :
          IF ok
          THEN /\ hw' = [hw EXCEPT !.usb_boot = None]
               /\ pc' = [pc EXCEPT ![t] = "fl_usb_pins"]
               /\ UNCHANGED <<res, as>>
          ELSE /\ Return(t, "err")
               /\ UNCHANGED hw
    /\ UNCHANGED <<aux, power_state, lock, app_db, ready, op, ret, tg, pn, lastpn,
                   calls, chan, rx, sent>>

\* PinController::set_usb_boot(node) arms the boot-strap pins of the node
set_usb_boot_skipped(node) == None

set_usb_boot(node) == Some(node)

\* after the settle delay: select_usb, set_usb_boot, set_usb_route, the first
\* k of which succeed, then set_usb_mode is entered
FlUsbPins(t) ==
    /\ pc[t] = "fl_usb_pins"
    /\ \E k \in 0 .. 3 :
          /\ hw' = [hw EXCEPT !.usb_sel = IF k >= 1 THEN Some(fl.node) ELSE @,
                              !.usb_boot = IF k >= 2 THEN set_usb_boot(fl.node) ELSE @,
                              !.usb_route = IF k >= 3 THEN Some("BMC") ELSE @]
          /\ IF k = 3
             THEN /\ fl' = [fl EXCEPT !.step = "usb_mode", !.mode = "Device"]
                  /\ ret' = [ret EXCEPT ![t] = "fl_send_prereq"]
                  /\ pc' = [pc EXCEPT ![t] = "sm_apply"]
                  /\ UNCHANGED <<res, as>>
             ELSE /\ Return(t, "err")
                  /\ UNCHANGED <<fl, ret>>
    /\ UNCHANGED <<aux, power_state, lock, app_db, ready, op, tg, pn, lastpn, calls,
                   chan, rx, sent>>

FlSendPrereq(t) ==
    /\ pc[t] = "fl_send_prereq"
    /\ \/ /\ SendOk("Prerequisite")
          /\ fl' = [fl EXCEPT !.step = "reactivate"]
          /\ CallSlot(t, TRUE, "fl_send_check")
          /\ UNCHANGED res
       \/ /\ SendErr(t)
          /\ UNCHANGED ret
    /\ UNCHANGED <<aux, power_state, lock, app_db, hw, ready, op, tg, pn, lastpn,
                   calls, rx>>

FlSendCheck(t) == SendStep(t, "fl_send_check", "Checking", "fl_enumerate")

\* get_serials_for_vid_pid, then verify_one_device with its try_send(Error).unwrap()
FlEnumerate(t) ==
    /\ pc[t] = "fl_enumerate"
    /\ \E ok \in BOOLEAN, matches \in 0 .. 2 :
          IF ~ok
          THEN /\ fl' = [fl EXCEPT !.step = "enumerate"]
               /\ Return(t, "err")
               /\ UNCHANGED <<chan, sent>>
          ELSE /\ fl' = [fl EXCEPT !.step = "verify", !.matches = matches]
               /\ IF matches = 1
                  THEN /\ pc' = [pc EXCEPT ![t] = "fl_send_reboot"]
                       /\ UNCHANGED <<res, as, chan, sent>>
                  ELSE IF TrySendFits
                  THEN /\ chan' = Append(chan, "Error")
                       /\ sent' = Append(sent, "Error")
                       /\ Return(t, "err")
                  ELSE /\ pc' = [pc EXCEPT ![t] = "done"]
                       /\ res' = [res EXCEPT ![t] = "panic"]
                       /\ UNCHANGED <<as, chan, sent>>
    /\ UNCHANGED <<aux, power_state, lock, app_db, hw, ready, op, ret, tg, pn,
                   lastpn, calls, rx>>

FlSendReboot(t) == SendStep(t, "fl_send_reboot", "Rebooting", "fl_boot_msd")

FlBootMsd(t) ==
    /\ pc[t] = "fl_boot_msd"
    /\ fl' = [fl EXCEPT !.step = "msd_boot"]
    /\ \E ok \in BOOLEAN :
          IF ok
          THEN /\ hw' = [hw EXCEPT !.msd = TRUE]
               /\ pc' = [pc EXCEPT ![t] = "fl_send_devfile"]
               /\ UNCHANGED <<res, as>>
          ELSE /\ Return(t, "err")
               /\ UNCHANGED hw
    /\ UNCHANGED <<aux, power_state, lock, app_db, ready, op, ret, tg, pn, lastpn,
                   calls, chan, rx, sent>>

FlSendDevFile(t) == SendStep(t, "fl_send_devfile", "DeviceFile", "fl_device_path")

FlDevicePath(t) == HelperStep(t, "fl_device_path", "device_path", "fl_send_writing")

FlSendWriting(t) == SendStep(t, "fl_send_writing", "Writing", "fl_write")

FlWrite(t) == HelperStep(t, "fl_write", "write", "fl_send_verifying")

FlSendVerifying(t) == SendStep(t, "fl_send_verifying", "Verifying", "fl_checksum")

FlChecksum(t) == HelperStep(t, "fl_checksum", "checksum", "fl_send_success")

FlSendSuccess(t) ==
    /\ pc[t] = "fl_send_success"
    /\ \/ /\ SendOk("Successful")
          /\ fl' = [fl EXCEPT !.step = "restore"]
          /\ CallSlot(t, FALSE, "um_select")
          /\ UNCHANGED res
       \/ /\ SendErr(t)
          /\ UNCHANGED ret
    /\ UNCHANGED <<aux, power_state, lock, app_db, hw, ready, op, tg, pn, lastpn,
                   calls, rx>>

\* --------------------------------------------------------------- usb_mode
UmSelect(t) ==
    /\ pc[t] = "um_select"
    /\ \E ok1 \in BOOLEAN, ok2 \in BOOLEAN :
          /\ hw' = [hw EXCEPT !.usb_sel = IF ok1 THEN Some(fl.node) ELSE @]
          /\ app_db' = [app_db EXCEPT !.usb_node = IF ok1 /\ ok2 THEN Some(fl.node)
                                                   ELSE @]
          /\ IF ok1 /\ ok2
             THEN /\ pc' = [pc EXCEPT ![t] = "um_route"]
                  /\ UNCHANGED <<res, as>>
             ELSE Return(t, "err")
    /\ UNCHANGED <<aux, power_state, lock, ready, op, ret, tg, pn, lastpn, calls,
                   flvars>>

UmRoute(t) ==
    /\ pc[t] = "um_route"
    /\ \E ok1 \in BOOLEAN, ok2 \in BOOLEAN :
          /\ hw' = [hw EXCEPT !.usb_route = IF ok1 THEN Some("UsbA") ELSE @]
          /\ app_db' = [app_db EXCEPT !.usb_route = IF ok1 /\ ok2 THEN Some("UsbA")
                                                    ELSE @]
          /\ IF ok1 /\ ok2
             THEN /\ CallSetUsbMode(t, "Host", "um_boot")
                  /\ UNCHANGED <<res, as>>
             ELSE /\ Return(t, "err")
                  /\ UNCHANGED <<fl, ret>>
    /\ UNCHANGED <<aux, power_state, lock, ready, op, tg, pn, lastpn, calls, chan,
                   rx, sent>>

\* the match at the end of usb_mode: Host clears the boot-strap pins, Device
\* arms them for the node
BootPinsFor_armed(mode, node) == Some(node)

BootPinsFor(mode, node) == IF mode = "Host" THEN None ELSE Some(node)

\* mode is Host here: clear_usb_boot, then back in flash_node the settle delay
\* and the reactivation
UmBoot(t) ==
    /\ pc[t] = "um_boot"
    /\ \E ok \in BOOLEAN :
          IF ok
          THEN /\ hw' = [hw EXCEPT !.usb_boot = BootPinsFor(fl.mode, fl.node)]
               /\ CallSlot(t, TRUE, "fl_send_done")
               /\ UNCHANGED res
          ELSE /\ Return(t, "err")
               /\ UNCHANGED <<hw, ret>>
    /\ UNCHANGED <<aux, power_state, lock, app_db, ready, op, tg, pn, lastpn, calls,
                   flvars>>

FlSendDone(t) ==
    /\ pc[t] = "fl_send_done"
    /\ \/ /\ SendOk("Done")
          /\ fl' = [fl EXCEPT !.step = "finished"]
          /\ ret' = [ret EXCEPT ![t] = "done"]
          /\ pc' = [pc EXCEPT ![t] = "done"]
          /\ res' = [res EXCEPT ![t] = "ok"]
          /\ UNCHANGED as
       \/ /\ SendErr(t)
          /\ UNCHANGED ret
    /\ UNCHANGED <<aux, power_state, lock, app_db, hw, ready, op, tg, pn, lastpn,
                   calls, rx>>

\* ------------------------------------------------ the operation returned
Finish(t) ==
    /\ pc[t] = "done"
    /\ pc' = [pc EXCEPT ![t] = "idle"]
    /\ ready' = IF op[t].name = "initialize" THEN res[t] = "ok" ELSE ready
    /\ op' = [op EXCEPT ![t] = NoOp]
    /\ res' = [res EXCEPT ![t] = "none"]
    /\ as' = [as EXCEPT ![t] = NoAs]
    /\ tg' = [tg EXCEPT ![t] = NoTg]
    /\ pn' = [pn EXCEPT ![t] = NoPn]
    /\ IF op[t].name = "flash_node"
       THEN chan' = <<>> /\ rx' = "open" /\ sent' = <<>> /\ fl' = NoFl
       ELSE UNCHANGED flvars
    /\ UNCHANGED <<aux, power_state, lock, app_db, hw, ret, lastpn, calls>>

TaskStep(t) ==
    \/ power_on(t) \/ power_off(t) \/ get_node_power(t) \/ activate_slot(t)
    \/ toggle_power_states(t)
    \/ PnGet(t) \/ PnLock(t) \/ PnAtx(t) \/ PnLed(t) \/ PnPins(t)
    \/ GpLock(t) \/ AsGet(t) \/ AsSet(t) \/ TgLock(t) \/ TgSet(t)
    \/ InitializeUsbMode(t) \/ InitializePower(t) \/ InitializePowerDefault(t)
    \/ Finish(t)

Next == \E t \in Tasks : TaskStep(t)

Spec == Init /\ [][Next]_vars

\* ----------------------------------------------------- run_event_listener
\* long_press = timeout(3 s, receiver).await.is_err(): Err only when the time
\* elapsed; a received () and a dropped sender both complete the receiver
long_press_inverted(outcome) == outcome # "Elapsed"

long_press(outcome) == outcome = "Elapsed"

\* a task is spawned by an event callback
Spawn(t) ==
    /\ ready
    /\ pc[t] = "idle"
    /\ calls < MaxCalls
    /\ calls' = calls + 1
    /\ res' = [res EXCEPT ![t] = "run"]
    /\ ret' = [ret EXCEPT ![t] = "done"]

\* (KEY_1, 1): the button goes down; a new oneshot channel, its sender replaces
\* the stored one, the spawned task races the receiver against 3 seconds
KeyPress(t) ==
    /\ gs.button = "up"
    /\ Spawn(t)
    /\ op' = [op EXCEPT ![t] = [NoOp EXCEPT !.name = "gesture"]]
    /\ pc' = [pc EXCEPT ![t] = "gs_wait"]
    /\ gs' = [gs EXCEPT !.button = "down",
                        !.sender = Some(t),
                        !.rcv = [u \in Tasks |->
                                   IF u = t THEN "pending"
                                   ELSE IF gs.sender = Some(u) /\ gs.rcv[u] = "pending"
                                        THEN "closed" ELSE gs.rcv[u]],
                        !.released[t] = FALSE,
                        !.outcome[t] = "none",
                        !.presses = @ + 1]
    /\ UNCHANGED <<logic, serial, power_state, lock, app_db, hw, ready, as, tg, pn,
                   lastpn, flvars>>

\* (KEY_1, 0): the button goes up; sender.take().and_then(|s| s.send(()).ok())
KeyRelease ==
    /\ ready
    /\ gs.button = "down"
    /\ gs' = [gs EXCEPT !.button = "up",
                        !.sender = None,
                        !.rcv = [u \in Tasks |->
                                   IF gs.sender = Some(u) /\ gs.rcv[u] = "pending"
                                   THEN "sent" ELSE gs.rcv[u]],
                        !.released = [u \in Tasks |->
                                        IF pc[u] = "gs_wait" THEN TRUE
                                        ELSE gs.released[u]]]
    /\ UNCHANGED <<logic, serial, sysvars>>

\* the race is decided and toggle_power_states is called with its result
GsDecide(t, outcome) ==
    /\ pc[t] = "gs_wait"
    /\ gs' = [gs EXCEPT !.rcv[t] = "dropped", !.outcome[t] = outcome,
                        !.toggles = @ + 1]
    /\ op' = [op EXCEPT ![t] = [name |-> "toggle_power_states", node |-> 0,
                                 flag |-> long_press(outcome)]]
    /\ pc' = [pc EXCEPT ![t] = "tg_lock"]
    /\ UNCHANGED <<logic, serial, power_state, lock, app_db, hw, ready, ret, res, as,
                   tg, pn, lastpn, calls, flvars>>

\* 3 seconds pass while the receiver is still pending
GsTimeout(t) == gs.rcv[t] = "pending" /\ GsDecide(t, "Elapsed")

\* the receiver completes first, with () or with the sender dropped
GsReceived(t) == gs.rcv[t] \in {"sent", "closed"} /\ GsDecide(t, "Ok")

\* (KEY_POWER, 1): toggle_power_states(app, false) in a spawned task
KeyPower(t) ==
    /\ Spawn(t)
    /\ op' = [op EXCEPT ![t] = [name |-> "toggle_power_states", node |-> 0,
                                 flag |-> FALSE]]
    /\ pc' = [pc EXCEPT ![t] = "tg_lock"]
    /\ gs' = [gs EXCEPT !.outcome[t] = "none", !.released[t] = FALSE]
    /\ UNCHANGED <<logic, serial, power_state, lock, app_db, hw, ready, as, tg, pn,
                   lastpn, flvars>>

\* ------------------------------------------------ the process restarts
\* the steps of the pipeline between the end of step 3 and the restoration
AfterStep3 == {"reactivate", "enumerate", "verify", "msd_boot", "device_path",
               "write", "checksum"}

\* the process stops while a pipeline is past step 3 and BmcApplication::new
\* runs again: memory is as constructed, the store is as it was left, and
\* fl.applied keeps what the pipeline had applied to the USB hardware
Restart(t) ==
    /\ op[t].name = "flash_node"
    /\ fl.step \in AfterStep3
    /\ power_state' = 0
    /\ lock' = Free
    /\ hw' = HwAtStart
    /\ ready' = FALSE
    /\ pc' = [u \in Tasks |-> IF u = "t1" THEN "init_usb" ELSE "idle"]
    /\ op' = [u \in Tasks |-> IF u = "t1" THEN [NoOp EXCEPT !.name = "initialize"]
                              ELSE NoOp]
    /\ ret' = [u \in Tasks |-> "done"]
    /\ res' = [u \in Tasks |-> IF u = "t1" THEN "run" ELSE "none"]
    /\ as' = [u \in Tasks |-> NoAs]
    /\ tg' = [u \in Tasks |-> NoTg]
    /\ pn' = [u \in Tasks |-> NoPn]
    /\ lastpn' = NoCall
    /\ chan' = <<>>
    /\ rx' = "open"
    /\ sent' = <<>>
    /\ fl' = [NoFl EXCEPT !.node = fl.node, !.step = "restarted",
                          !.applied = Some([usb_sel |-> hw.usb_sel,
                                            usb_route |-> hw.usb_route,
                                            usb_mode |-> hw.usb_mode])]
    /\ UNCHANGED <<aux, app_db, calls>>

\* the flashing pipeline after start-up, running alone, with its receiver
FlashStep(t) ==
    \/ InitializeUsbMode(t) \/ InitializePower(t) \/ InitializePowerDefault(t)
    \/ PnGet(t) \/ PnLock(t) \/ PnAtx(t) \/ PnLed(t) \/ PnPins(t)
    \/ AsGet(t) \/ AsSet(t) \/ SmApply(t) \/ SmPersist(t)
    \/ flash_node(t) \/ FlSendOff(t) \/ FlClearBoot(t) \/ FlUsbPins(t)
    \/ FlSendPrereq(t) \/ FlSendCheck(t) \/ FlEnumerate(t) \/ FlSendReboot(t)
    \/ FlBootMsd(t) \/ FlSendDevFile(t) \/ FlDevicePath(t) \/ FlSendWriting(t)
    \/ FlWrite(t) \/ FlSendVerifying(t) \/ FlChecksum(t) \/ FlSendSuccess(t)
    \/ UmSelect(t) \/ UmRoute(t) \/ UmBoot(t) \/ FlSendDone(t)
    \/ Finish(t)

NextFlash == (\E t \in Tasks : FlashStep(t)) \/ Recv \/ RxClose

SpecFlash == Init /\ [][NextFlash]_vars

\* the flashing pipeline with a process restart after its step 3
NextRestart == NextFlash \/ (\E t \in Tasks : Restart(t))

SpecRestart == Init /\ [][NextRestart]_vars

\* the event listener and the tasks it spawns
GestureStep(t) ==
    \/ InitializeUsbMode(t) \/ InitializePower(t) \/ InitializePowerDefault(t)
    \/ KeyPress(t) \/ GsTimeout(t) \/ GsReceived(t) \/ KeyPower(t)
    \/ TgLock(t) \/ TgSet(t)
    \/ PnGet(t) \/ PnLock(t) \/ PnAtx(t) \/ PnLed(t) \/ PnPins(t)
    \/ Finish(t)

NextGesture == (\E t \in Tasks : GestureStep(t)) \/ KeyRelease

SpecGesture == Init /\ [][NextGesture]_vars

\* one operation at a time: no task starts while another is still running
SpecSeq == InitSeq /\ [][Next]_vars

\* ------------------------------------------- power_logic on its own inputs

LogicVals == 0 .. (2 ^ LogicBits - 1)

InitLogic ==
    /\ \E l \in [v : LogicVals, m : LogicVals, a : LogicVals, s : LogicVals,
                 r : {Absent}] :
          logic = l
    /\ serial = TRUE
    /\ gs = NoGs
    /\ InitWith(None, [usb_node |-> None, usb_route |-> None, usb_mode |-> None])

ApplyPowerLogic ==
    /\ logic.r = Absent
    /\ logic' = [logic EXCEPT !.r = power_logic(logic.v, logic.m, logic.a, logic.s)]
    /\ UNCHANGED <<serial, gs, sysvars>>

NextLogic == ApplyPowerLogic

SpecLogic == InitLogic /\ [][NextLogic]_vars

\* ------------------------------------------------------------ properties
Activated == unwrap_or(app_db.activated_nodes, 0)
HwAwait == {"pn_atx", "pn_led", "pn_pins"}

\* C1: in every reachable state no node is powered in power_state that is
\* not activated in the persisted activated-nodes mask.
C1_PoweredOnlyIfActivated ==
    BitAnd(power_state, BitNot(Activated)) = 0

\* C4: a successful activate_slot(node, on) changes exactly the node's bit of
\* the persisted activated mask, leaves the node's power bit equal to on, and
\* leaves the power bits of the other activated nodes as they were.
C4_ActivateSlotFrame ==
    \A t \in Tasks :
        as[t].res = "ok" =>
            LET bit == to_bitfield(as[t].node)
                want == IF as[t].on THEN bit ELSE 0
                others == BitAnd(Activated, BitNot(bit))
            IN  /\ BitAnd(Activated, bit) = want
                /\ others = BitAnd(as[t].pre_act, BitNot(bit))
                /\ BitAnd(power_state, bit) = want
                /\ BitAnd(power_state, others) = BitAnd(as[t].pre_pow, others)

C4_Witness ==
    \E t \in Tasks :
        /\ as[t].res = "ok"
        /\ ~as[t].on
        /\ BitAnd(as[t].pre_pow, to_bitfield(as[t].node)) # 0
        /\ power_state # 0
        /\ Activated # ALL_NODES

\* C5: a failing hardware write in power_node makes the call return an error
\* with power_state as it was, and power_state only ever changes in the step
\* in which the per-node pin write succeeded, to the reconciled state.
C5_StateKeptOnFailure ==
    [][/\ \A t \in Tasks :
             (pn[t].res = "run" /\ pn'[t].res = "err") =>
                 /\ power_state' = power_state
                 /\ res'[t] = "err"
                 /\ pc'[t] = "done"
       /\ power_state' # power_state =>
             \E t \in Tasks :
                 /\ pc[t] = "pn_pins"
                 /\ pn'[t].res = "ok"
                 /\ power_state' = pn[t].new]_vars

C5_Witness ==
    \E t \in Tasks :
        /\ pn[t].fail = "pins"
        /\ pn[t].atxw = Some(TRUE)
        /\ res[t] = "err"
        /\ power_state = pn[t].cur
        /\ pn[t].new # pn[t].cur

\* C6 (as stated): the second of two power_node calls with the same values
\* and mask, nothing in between, returns success without hardware access.
C6_SecondCallNoWrites ==
    \A t \in Tasks :
        (pn[t].res \in {"ok", "err"} /\ pn[t].prev \in {"ok", "err"}) =>
            pn[t].res = "ok" /\ pn[t].early

\* C6 (amended): when the first of two such calls returned success, the second
\* finds the reconciled state equal to power_state and returns success
\* without hardware access.
C6_SecondCallAfterSuccess ==
    \A t \in Tasks :
        (pn[t].res \in {"ok", "err"} /\ pn[t].prev = "ok") =>
            /\ pn[t].res = "ok"
            /\ pn[t].early
            /\ pn[t].atxw = None
            /\ pn[t].new = pn[t].cur

C6_Witness ==
    \E t \in Tasks :
        /\ pn[t].prev = "ok"
        /\ pn[t].res = "ok"
        /\ pn[t].early
        /\ pn[t].v = ALL_NODES
        /\ hw.atx
        /\ power_state # 0

C8_LockFreeDuringHardware ==
    \A t \in Tasks : pc[t] \in HwAwait => lock = Free

\* C8 (amended): the lock is held exactly by a task inside power_node's rail,
\* indicator and pin writes; it is never held across a store access.
C8_LockHeldExactlyInWrites ==
    \A t \in Tasks : lock = t <=> pc[t] \in HwAwait

C8_Witness ==
    \E t \in Tasks, u \in Tasks :
        /\ lock = t
        /\ pc[t] = "pn_atx"
        /\ pc[u] = "gp_lock"

PipelineSteps == {"deactivate", "pins", "usb_mode", "reactivate", "enumerate",
                  "verify", "msd_boot", "device_path", "write", "checksum",
                  "restore"}
Published(msg) == \E i \in 1 .. Len(sent) : sent[i] = msg

\* C9: a pipeline that found no matching USB device has stopped at the
\* verification of the discovery, returned the error to its caller and
\* published a terminal Error event.
C9_NoDeviceAbortsWithError ==
    \A t \in Tasks :
        (op[t].name = "flash_node" /\ pc[t] = "done" /\ fl.matches = 0) =>
            /\ res[t] = "err"
            /\ fl.step = "verify"
            /\ sent # <<>>
            /\ sent[Len(sent)] = "Error"

\* C10: whichever pipeline step failed, the call returned the error and an
\* Error status was published on the progress channel.
C10_FailurePublishedAsError ==
    \A t \in Tasks :
        (op[t].name = "flash_node" /\ pc[t] = "done" /\ res[t] # "ok"
            /\ fl.step \in PipelineSteps) =>
            /\ res[t] = "err"
            /\ Published("Error")

\* C2: whatever the request, the activated mask and the current state, the
\* reconciled power state has no bit set outside the activated mask.
C2_NoDeactivatedBit ==
    logic.r # Absent => BitAnd(logic.r, BitNot(logic.a)) = 0

C2_Witness ==
    /\ logic.r # Absent
    /\ BitAnd(logic.s, BitNot(logic.a)) # 0
    /\ BitAnd(logic.m, BitNot(logic.a)) # 0
    /\ BitAnd(logic.v, BitNot(logic.a)) # 0
    /\ logic.r # 0

\* C3: bit i of the reconciled state is 0 where the node is not activated,
\* the requested value where the node is activated and in the request mask,
\* and the current value where it is activated and outside the mask; hence
\* full-on gives the activated mask, full-off gives 0, and a request that
\* covers no activated node gives the current state cut to the activated mask.
C3_BitwiseResult ==
    logic.r # Absent =>
        /\ \A i \in 0 .. 7 :
              Bit(logic.r, i) =
                  IF Bit(logic.a, i) = 0 THEN 0
                  ELSE IF Bit(logic.m, i) = 1 THEN Bit(logic.v, i)
                  ELSE Bit(logic.s, i)
        /\ (logic.v = ALL_NODES /\ logic.m = ALL_NODES /\ logic.a <= ALL_NODES)
              => logic.r = logic.a
        /\ (logic.v = 0 /\ logic.m = ALL_NODES /\ logic.a <= ALL_NODES)
              => logic.r = 0
        /\ BitAnd(logic.m, logic.a) = 0 => logic.r = BitAnd(logic.s, logic.a)

C3_Witness ==
    /\ logic.r # Absent
    /\ logic.a = 11 /\ logic.s = 14 /\ logic.m = 5 /\ logic.v = 1
    /\ logic.r = 11

\* ------------------------------------------- properties of the pipeline
NodeBit(x) == BitAnd(x, to_bitfield(fl.node))
Flashing(t) == op[t].name = "flash_node"
LastSent == IF sent = <<>> THEN "none" ELSE sent[Len(sent)]

\* C11: when the non-blocking send of the final Error event fails (channel
\* full or receiver gone), the failure is ignored: the pipeline still returns
\* the verification error to its caller and the task does not crash.
C11_FailedErrorSendIgnored ==
    \A t \in Tasks :
        (Flashing(t) /\ pc[t] = "done" /\ fl.step = "verify" /\ fl.matches # 1
            /\ LastSent # "Error") =>
            res[t] = "err"

\* C12: when the checksum verification fails after the image was written,
\* flash_node returns the error and the restoration never runs: the node is
\* left activated and powered, its USB mode device, its boot-strap pins armed.
C12_ChecksumFailureLeavesDeviceMode ==
    \A t \in Tasks :
        (Flashing(t) /\ pc[t] = "done" /\ fl.step = "checksum") =>
            /\ res[t] = "err"
            /\ ~Published("Successful")
            /\ ~Published("Done")
            /\ as[t].on /\ as[t].res = "ok"
            /\ NodeBit(Activated) # 0
            /\ NodeBit(power_state) # 0
            /\ NodeBit(hw.nodes) # 0
            /\ hw.atx
            /\ hw.usb_mode # None /\ NodeBit(hw.usb_mode[1]) = 0
            /\ app_db.usb_mode # None /\ NodeBit(app_db.usb_mode[1]) = 0
            /\ hw.usb_boot = Some(fl.node)
            /\ hw.usb_sel = Some(fl.node)
            /\ hw.usb_route = Some("BMC")

C12_Witness ==
    \E t \in Tasks :
        /\ Flashing(t) /\ pc[t] = "done" /\ fl.step = "checksum"
        /\ res[t] = "err"
        /\ LastSent = "Verifying"
        /\ fl.node = 1
        /\ hw.usb_boot = Some(1)
        /\ power_state = 6

\* C13: every USB setting applied in step 3 was written to the store, so when
\* the process stops after step 3 and starts again, the start-up USB restore
\* re-applies the multiplexer node, route and mode mask the pipeline applied.
C13_RestartRestoresAppliedUsb ==
    \A t \in Tasks :
        (fl.step = "restarted" /\ op[t].name = "initialize"
            /\ pc[t] = "init_power") =>
            /\ hw.usb_sel = fl.applied[1].usb_sel
            /\ hw.usb_route = fl.applied[1].usb_route
            /\ hw.usb_mode = fl.applied[1].usb_mode

\* C14: in a run of flash_node that returns success the USB mode is restored
\* to host, boot-strap pins cleared, while the slot is deactivated; the slot
\* is reactivated after that; the done event is sent after the reactivation
\* and is the last event; at return the node is activated and powered and its
\* USB mode is host.
InUsbRestore(t) ==
    \/ pc[t] \in {"um_select", "um_route", "um_boot"}
    \/ pc[t] \in {"sm_apply", "sm_persist"} /\ fl.mode = "Host"

HostMode(o) == o # None /\ NodeBit(o[1]) # 0

C14_RestoreOrderOnSuccess ==
    \A t \in Tasks :
        Flashing(t) =>
            /\ InUsbRestore(t) =>
                  /\ ~as[t].on /\ as[t].res = "ok"
                  /\ NodeBit(Activated) = 0
                  /\ NodeBit(power_state) = 0
            /\ (fl.step = "restore" /\ as[t].on) =>
                  /\ HostMode(hw.usb_mode) /\ HostMode(app_db.usb_mode)
                  /\ hw.usb_boot = None
            /\ Published("Done") =>
                  /\ pc[t] = "done" /\ res[t] = "ok"
                  /\ LastSent = "Done"
            /\ (pc[t] = "done" /\ res[t] = "ok") =>
                  /\ LastSent = "Done"
                  /\ fl.step = "finished"
                  /\ as[t].on /\ as[t].res = "ok"
                  /\ NodeBit(Activated) # 0
                  /\ NodeBit(power_state) # 0
                  /\ NodeBit(hw.nodes) # 0
                  /\ hw.atx
                  /\ HostMode(hw.usb_mode) /\ HostMode(app_db.usb_mode)
                  /\ hw.usb_boot = None

C14_Witness ==
    \E t \in Tasks :
        /\ Flashing(t) /\ pc[t] = "done" /\ res[t] = "ok"
        /\ LastSent = "Done"
        /\ fl.node = 0
        /\ power_state = 1
        /\ Activated = 1
        /\ hw.usb_route = Some("UsbA")

\* C18: in a run of the pipeline with no other power caller, the multiplexer
\* selection, the boot-strap pins, the route and the USB mode change only
\* while the target node's power bit is 0, and the node is powered on in
\* step 4 only after its USB mode was switched to device and persisted.
C18_UsbChangedWhilePoweredOff ==
    [][\A t \in Tasks :
          Flashing(t) =>
              /\ <<hw.usb_sel, hw.usb_boot, hw.usb_route, hw.usb_mode>>'
                    # <<hw.usb_sel, hw.usb_boot, hw.usb_route, hw.usb_mode>> =>
                    /\ NodeBit(power_state) = 0
                    /\ NodeBit(hw.nodes) = 0
              /\ (NodeBit(power_state) = 0 /\ NodeBit(power_state') # 0) =>
                    /\ fl.step \in {"reactivate", "restore"}
                    /\ fl.step = "reactivate" =>
                          /\ hw.usb_mode # None /\ NodeBit(hw.usb_mode[1]) = 0
                          /\ app_db.usb_mode = hw.usb_mode
                          /\ hw.usb_boot = Some(fl.node)]_vars

C18_Witness ==
    \E t \in Tasks :
        /\ Flashing(t)
        /\ pc[t] = "fl_send_check"
        /\ NodeBit(power_state) # 0
        /\ as[t].pre_pow = 4
        /\ hw.usb_boot = Some(fl.node)
        /\ hw.usb_route = Some("BMC")
        /\ app_db.usb_mode = Some(13)

\* ------------------------------------------ properties of the recognizer
Racing == {t \in Tasks : pc[t] = "gs_wait"}

\* C15: every press-down of the gesture button leads to exactly one call of
\* the power-toggle action, with the long-press flag exactly if 3 seconds
\* elapsed before the matching release, without it exactly if the release
\* came first; a release returns the recognizer to Idle.
C15_OneToggleByPressDuration ==
    /\ gs.presses = gs.toggles + Cardinality(Racing)
    /\ \A t \in Tasks :
          gs.outcome[t] # "none" =>
              /\ gs.outcome[t] = "Elapsed" <=> ~gs.released[t]
              /\ (op[t].name = "toggle_power_states") =>
                    /\ op[t].flag <=> ~gs.released[t]
                    /\ op[t].flag <=> gs.outcome[t] = "Elapsed"
    /\ gs.button = "up" => gs.sender = None
    /\ gs.button = "down" => gs.sender # None

C15_Witness ==
    \E t \in Tasks, u \in Tasks :
        /\ t # u
        /\ op[t].name = "toggle_power_states" /\ op[t].flag
        /\ gs.outcome[t] = "Elapsed"
        /\ op[u].name = "toggle_power_states" /\ ~op[u].flag
        /\ gs.outcome[u] = "Ok" /\ gs.released[u]
        /\ gs.button = "up"
        /\ gs.presses = 2

\* ------------------------------------- properties of the power operations
\* C16: a power-toggle action that runs alone and succeeds (1) with a zero
\* power bitmask sets the activated mask to all four nodes and powers all
\* four on, with or without the long-press flag; (2) with a nonzero bitmask
\* and no long-press flag leaves the activated mask unchanged and inverts the
\* power bit of every activated node.
C16_ToggleAlone ==
    \A t \in Tasks :
        (op[t].name = "toggle_power_states" /\ pc[t] = "done" /\ res[t] = "ok") =>
            /\ tg[t].node_values = 0 =>
                  /\ Activated = ALL_NODES
                  /\ power_state = ALL_NODES
                  /\ hw.nodes = ALL_NODES
                  /\ hw.atx
            /\ (tg[t].node_values # 0 /\ ~op[t].flag) =>
                  /\ Activated = tg[t].pre_act
                  /\ \A i \in Nodes :
                        Bit(Activated, i) = 1 =>
                            Bit(power_state, i) = 1 - Bit(tg[t].node_values, i)

C16_Witness ==
    \E t \in Tasks :
        /\ op[t].name = "toggle_power_states" /\ pc[t] = "done" /\ res[t] = "ok"
        /\ ~op[t].flag
        /\ tg[t].node_values = 6
        /\ tg[t].pre_act = 7
        /\ Activated = 7
        /\ power_state = 1

\* C17: during initialization every USB restore write (multiplexer node,
\* route, mode mask, from the store or the fixed default) is issued before any
\* power write; when initialization succeeds with a persisted activated mask
\* a, the power bitmask equals a and the rail is on iff a is nonzero; when no
\* mask is persisted, 0 is stored and no node is powered.
UsbRestored ==
    /\ hw.usb_sel = IF app_db.usb_node = None THEN Some(0) ELSE app_db.usb_node
    /\ hw.usb_route = IF app_db.usb_route = None THEN Some("UsbA")
                      ELSE app_db.usb_route
    /\ hw.usb_mode = IF app_db.usb_mode = None THEN Some(15) ELSE app_db.usb_mode

C17_StartupOrderAndPower ==
    \A t \in Tasks :
        op[t].name = "initialize" =>
            /\ (pc[t] = "init_usb" \/ ~UsbRestored) =>
                  /\ ~hw.atx /\ ~hw.led /\ hw.nodes = 0
                  /\ power_state = 0
                  /\ pn[t].res = "none"
            /\ pc[t] \in {"init_power", "init_set", "pn_get", "pn_lock"} \cup HwAwait
                  => UsbRestored
            /\ (pc[t] = "done" /\ res[t] = "ok") =>
                  /\ UsbRestored
                  /\ app_db.activated_nodes # None
                  /\ power_state = Activated
                  /\ hw.nodes = Activated
                  /\ hw.atx <=> Activated # 0
                  /\ IF pn[t].res = "none"
                     THEN Activated = 0
                     ELSE Activated = pn[t].v

C17_Witness ==
    \E t \in Tasks :
        /\ op[t].name = "initialize" /\ pc[t] = "done" /\ res[t] = "ok"
        /\ Activated = 6
        /\ power_state = 6
        /\ hw.atx
        /\ hw.usb_sel = Some(2)
        /\ hw.usb_route = Some("BMC")
        /\ hw.usb_mode = Some(11)

\* C19: two activate_slot calls for two different nodes that run concurrently
\* and both return success both take effect: the persisted activated mask
\* holds each target node's bit at the requested value and the power bitmask
\* agrees with the mask on both nodes.
C19_ConcurrentActivationsBothApply ==
    \A t \in Tasks, u \in Tasks :
        (/\ t # u
         /\ op[t].name = "activate_slot" /\ op[u].name = "activate_slot"
         /\ pc[t] = "done" /\ pc[u] = "done"
         /\ as[t].res = "ok" /\ as[u].res = "ok"
         /\ as[t].node # as[u].node) =>
            \A x \in {t, u} :
                /\ Bit(Activated, as[x].node) = (IF as[x].on THEN 1 ELSE 0)
                /\ Bit(power_state, as[x].node) = Bit(Activated, as[x].node)

\* C20: starting with the rail off and the bitmask zero, whenever no power
\* operation is in progress, whatever operations ran and however they
\* returned, the rail is on iff the power bitmask is nonzero and the per-node
\* pins last written equal the power bitmask.
C20_RailAgreesWhenIdle ==
    (ready /\ \A t \in Tasks : pc[t] = "idle") =>
        /\ hw.atx <=> power_state # 0
        /\ hw.nodes = power_state
====
